---- MODULE Spec2Model ----
(***************************************************************************)
(* Backend registry and dispatch of dlicv.                                 *)
(*                                                                         *)
(*   dlicv/backend/base/backend_manager.py       BaseBackendManager,       *)
(*                                               BackendManagerRegistry,   *)
(*                                               get_backend_manager       *)
(*   dlcv/infer/backend/tensorrt/backend_manager.py   TensorRTManager      *)
(*   dlicv/infer/backend/ascend/backend_manager.py    AscendManager        *)
(*                                                                         *)
(* Two specifications share the variables:                                 *)
(*   Spec     the registry: register, find, get_backend_manager            *)
(*   SpecCap  the capability methods of the implementations:               *)
(*            is_available, get_version, check_env, build_backend          *)
(* Every action records the call it models, with its outcome, in `op`.     *)
(***************************************************************************)
EXTENDS Naturals, FiniteSets, Sequences, TLC

\* ---------------------------------------------------------------- values

\* Python's None (a missing argument, `dict.get(name, None)`).
Null == "<null>"

\* No exception left the call.
NoExc == "<none>"

\* A class on which `backend_name` was never set.
Unset == "<unset>"

\* Backend names passed to register / find.
Names == {"tensorrt", "ascend"}

\* Attribute names of the Backend enum that calls can pass as enum_name.
EnumNames == {"TENSORRT", "ASCEND"}

\* name.upper()
Upper(name) ==
  CASE name = "tensorrt" -> "TENSORRT"
    [] name = "ascend"   -> "ASCEND"

\* The implementation classes: the two of the repository, a subclass that
\* overrides nothing of BaseBackendManager (StubManager), and a subclass that
\* overrides is_available only (DummyManager).
Classes == {"TensorRTManager", "AscendManager", "StubManager", "DummyManager"}

\* The class that the module '<namespace>.<name>' decorates with
\* @BACKEND_MANAGERS.register(name) at its top level.
ModuleClass(name) ==
  CASE name = "tensorrt" -> "TensorRTManager"
    [] name = "ascend"   -> "AscendManager"

\* ---------------------------------------------------------------- state

VARIABLES
  module_dict,   \* BackendManagerRegistry._module_dict : name -> class
  backend_name,  \* the class attribute cls.backend_name of every class
  member_map,    \* Backend enum: attribute name -> value of its member
  member_names,  \* Backend enum: names of the canonical members (no aliases)
  sys_modules,   \* names n whose module 'dlicv.backend.<n>' is imported
  nreg,          \* number of register decorators applied so far
  op             \* the last call and its outcome

vars == <<module_dict, backend_name, member_map, member_names, sys_modules,
          nreg, op>>

\* Bound on the number of registrations of one behaviour.
MaxReg == 3

\* ---------------------------------------------------------------- helpers

\* d[k] = v of a Python dict
DictSet(d, k, v) == [x \in (DOMAIN d) \cup {k} |-> IF x = k THEN v ELSE d[x]]

\* d.get(k, None)
DictGet(d, k) == IF k \in DOMAIN d THEN d[k] ELSE Null

\* hasattr(Backend, enum_name)
HasAttr(mm, enum_name) == enum_name \in DOMAIN mm

\* The canonical members of the enum whose value is `value`.
MembersOf(mm, mn, value) == {l \in mn : mm[l] = value}

\* extend_enum(Backend, enum_name, name), called when enum_name is not an
\* attribute yet: a value that a member already has makes enum_name an alias
\* of that member, a new value makes a new member.
ExtendEnumMap(mm, enum_name, name) == DictSet(mm, enum_name, name)

ExtendEnumNames(mm, mn, enum_name, name) ==
  IF \E l \in mn : mm[l] = name THEN mn ELSE mn \cup {enum_name}

\* The record of a call.
Call(kind, arg, name, enum_name, cls, logged, import, raised, result) ==
  [kind |-> kind, arg |-> arg, name |-> name, enum_name |-> enum_name,
   cls |-> cls, logged |-> logged, import |-> import, raised |-> raised,
   result |-> result]

\* ---------------------------------------------------------------- Init

Init ==
  /\ module_dict = <<>>
  /\ backend_name = [c \in Classes |-> Unset]
  /\ member_map = <<>>
  /\ member_names = {}
  /\ sys_modules = {}
  /\ nreg = 0
  /\ op = Call("init", Null, Null, Null, Null, {}, "none", NoExc, Null)

\* ---------------------------------------------------------------- register

\* register(name, enum_name): the enum name the decorator uses.
EnumNameOf(name, enum_name) == IF enum_name = Null THEN Upper(name) ELSE enum_name

\* What wrap_manager logs.
WrapLogged(md, mm, name, en) ==
  (IF ~HasAttr(mm, en) THEN {"new_backend"} ELSE {})
    \cup (IF name \in DOMAIN md THEN {"already_registered"} ELSE {})

\* Mutant of RegistryStore: the first registration of a name is kept
\* (dict.setdefault).
RegistryStoreKeepFirst(md, name, cls) ==
  IF name \in DOMAIN md THEN md ELSE DictSet(md, name, cls)

\* Mutant of RegistryStore: the dict is rebuilt with the one key.
RegistryStoreFresh(md, name, cls) == [x \in {name} |-> cls]

\* self._module_dict[name] = cls
RegistryStore(md, name, cls) == DictSet(md, name, cls)

\* wrap_manager(cls): the effect on the enum, the registry and the class.
WrapManager(name, en, cls) ==
  /\ member_map' = IF ~HasAttr(member_map, en)
                   THEN ExtendEnumMap(member_map, en, name)
                   ELSE member_map
  /\ member_names' = IF ~HasAttr(member_map, en)
                     THEN ExtendEnumNames(member_map, member_names, en, name)
                     ELSE member_names
  /\ module_dict' = RegistryStore(module_dict, name, cls)
  /\ backend_name' = [backend_name EXCEPT ![cls] = name]

\* BACKEND_MANAGERS.register(name, enum_name)(cls)
Decorate(name, enum_name, cls) ==
  /\ LET en == EnumNameOf(name, enum_name) IN
       /\ WrapManager(name, en, cls)
       /\ op' = Call("register", name, name, enum_name, cls,
                     WrapLogged(module_dict, member_map, name, en),
                     "none", NoExc, cls)
  /\ nreg' = nreg + 1
  /\ UNCHANGED sys_modules

Register(name, enum_name, cls) ==
  /\ nreg < MaxReg
  /\ Decorate(name, enum_name, cls)

\* ---------------------------------------------------------------- find

\* What importlib.import_module('dlicv.backend.' + name) meets.
ImportOutcomes == {"missing", "empty", "registers"}

\* BACKEND_MANAGERS.find(name), reached as `kind` with argument `arg`.
FindAs(kind, arg, name) ==
  IF name \in sys_modules
  THEN \* the module is imported already: its body does not run again
       /\ op' = Call(kind, arg, name, Null, Null, {}, "cached", NoExc,
                     DictGet(module_dict, name))
       /\ UNCHANGED <<module_dict, backend_name, member_map, member_names,
                      sys_modules, nreg>>
  ELSE \E io \in ImportOutcomes :
         CASE io = "missing" ->
                \* import_module raises; nothing catches it
                /\ op' = Call(kind, arg, name, Null, Null, {}, io,
                              "ModuleNotFoundError", Null)
                /\ UNCHANGED <<module_dict, backend_name, member_map,
                               member_names, sys_modules, nreg>>
           [] io = "empty" ->
                /\ sys_modules' = sys_modules \cup {name}
                /\ op' = Call(kind, arg, name, Null, Null, {}, io, NoExc,
                              DictGet(module_dict, name))
                /\ UNCHANGED <<module_dict, backend_name, member_map,
                               member_names, nreg>>
           [] io = "registers" ->
                \* the module's decorator runs while it is imported
                /\ nreg < MaxReg
                /\ WrapManager(name, Upper(name), ModuleClass(name))
                /\ nreg' = nreg + 1
                /\ sys_modules' = sys_modules \cup {name}
                /\ op' = Call(kind, arg, name, Null, Null,
                              WrapLogged(module_dict, member_map, name,
                                         Upper(name)),
                              io, NoExc, ModuleClass(name))

Find(name) == FindAs("find", name, name)

\* get_backend_manager(name): an Enum argument stands for its value.
GetBackendManager(arg) ==
  IF arg \in DOMAIN member_map
  THEN FindAs("get_backend_manager", arg, member_map[arg])
  ELSE FindAs("get_backend_manager", arg, arg)

\* ---------------------------------------------------------------- probes

\* The libraries the implementations probe or import.
Libs == {"tensorrt", "aclruntime", "ais_bench", "pkg_resources"}

\* The distributions whose metadata get_version reads.
Dists == {"tensorrt", "ais_bench"}

\* The environment of one call: the importable libraries, the distributions
\* with readable metadata, and what DummyManager.is_available returns.
Envs == [libs : SUBSET Libs, dists : SUBSET Dists, dummy : BOOLEAN]

\* The environments that differ for a class: the parts it never reads are
\* fixed.
EnvsOf(cls) ==
  CASE cls = "TensorRTManager" ->
         {e \in Envs : /\ e.libs \subseteq {"tensorrt", "pkg_resources"}
                       /\ e.dists \subseteq {"tensorrt"}
                       /\ ~e.dummy}
    [] cls = "AscendManager" ->
         {e \in Envs : /\ e.libs \subseteq {"aclruntime", "ais_bench",
                                            "pkg_resources"}
                       /\ e.dists \subseteq {"ais_bench"}
                       /\ ~e.dummy}
    [] cls = "DummyManager" ->
         {e \in Envs : e.libs = {} /\ e.dists = {}}
    [] OTHER ->
         {e \in Envs : e.libs = {} /\ e.dists = {} /\ ~e.dummy}

\* pkg_resources.get_distribution(dist).version
DistVersion(dist) ==
  CASE dist = "tensorrt"  -> "8.6.1"
    [] dist = "ais_bench" -> "0.0.2"

\* The outcome of a call: the exception that left it, or its value.
Raise(exc) == [raised |-> exc, value |-> Null]
Return(v) == [raised |-> NoExc, value |-> v]

\* importlib.util.find_spec(lib) is not None
FindSpec(env, lib) == lib \in env.libs

\* Mutant of IsAvailable: the probe imports the library instead of looking
\* for its spec, and the ImportError of an absent library leaves the call.
IsAvailableByImport(cls, env) ==
  CASE cls = "TensorRTManager" ->
         IF FindSpec(env, "tensorrt") THEN [raised |-> NoExc, value |-> TRUE]
         ELSE [raised |-> "ImportError", value |-> Null]
    [] cls = "AscendManager" ->
         IF FindSpec(env, "aclruntime") /\ FindSpec(env, "ais_bench")
         THEN [raised |-> NoExc, value |-> TRUE]
         ELSE [raised |-> "ImportError", value |-> Null]
    [] cls = "DummyManager" -> [raised |-> NoExc, value |-> env.dummy]
    [] OTHER -> [raised |-> "NotImplementedError", value |-> Null]

\* cls.is_available()
IsAvailable(cls, env) ==
  CASE cls = "TensorRTManager" -> Return(FindSpec(env, "tensorrt"))
    [] cls = "AscendManager" ->
         Return(FindSpec(env, "aclruntime") /\ FindSpec(env, "ais_bench"))
    [] cls = "DummyManager" -> Return(env.dummy)
    [] OTHER -> Raise("NotImplementedError")

\* Mutant of VersionOfDist: the version is read without asking
\* is_available first.
VersionOfDistUnchecked(cls, env, dist) ==
  IF "pkg_resources" \notin env.libs
  THEN Raise("ImportError")
  ELSE IF dist \in env.dists
       THEN Return(DistVersion(dist))
       ELSE Return("None")

\* The body shared by TensorRTManager.get_version and
\* AscendManager.get_version, for the distribution `dist`.
VersionOfDist(cls, env, dist) ==
  LET available == IsAvailable(cls, env) IN
    IF ~available.value
    THEN Return("None")
    ELSE IF "pkg_resources" \notin env.libs
         THEN Raise("ImportError")
         ELSE IF dist \in env.dists
              THEN Return(DistVersion(dist))
              ELSE Return("None")

\* is_available() returned False.
Unavailable(cls, env) ==
  LET available == IsAvailable(cls, env) IN
    available.raised = NoExc /\ ~available.value

\* The call returned v.
Returned(out, v) == out.raised = NoExc /\ out.value = v

\* cls.get_version()
GetVersion(cls, env) ==
  CASE cls = "TensorRTManager" -> VersionOfDist(cls, env, "tensorrt")
    [] cls = "AscendManager"   -> VersionOfDist(cls, env, "ais_bench")
    [] OTHER -> Raise("NotImplementedError")

\* ---------------------------------------------------------------- check_env

\* What log_callback does with the line: the default returns it, a callback
\* of the caller may raise.
Callbacks == {"noop", "raises"}

\* f'{cls.backend_name}:\t{value}': the pieces of the line, or the
\* AttributeError of a class without backend_name.
FormatInfo(bn, value) ==
  IF bn = Unset THEN Raise("AttributeError") ELSE Return(<<bn, ":\t", value>>)

\* Mutant of CheckEnvTry: get_version is asked whatever is_available
\* returned.
CheckEnvTryAlwaysVersion(cls, bn, env) ==
  LET available == IsAvailable(cls, env) IN
    IF available.raised # NoExc
    THEN available
    ELSE LET v == GetVersion(cls, env) IN
           IF v.raised = "NotImplementedError"
           THEN FormatInfo(bn, "Unknown")
           ELSE IF v.raised # NoExc
                THEN v
                ELSE FormatInfo(bn, v.value)

\* The try block of check_env. Every exception the probes raise derives
\* from Exception, so the except clause catches each of them.
CheckEnvTry(cls, bn, env) ==
  LET available == IsAvailable(cls, env) IN
    IF available.raised # NoExc
    THEN available
    ELSE IF available.value
         THEN LET v == GetVersion(cls, env) IN
                IF v.raised = "NotImplementedError"
                THEN FormatInfo(bn, "Unknown")
                ELSE IF v.raised # NoExc
                     THEN v
                     ELSE FormatInfo(bn, v.value)
         ELSE FormatInfo(bn, "None")

\* check_env up to the line `info`: the try block and its except clause.
CheckEnvInfo(cls, bn, env) ==
  LET t == CheckEnvTry(cls, bn, env) IN
    IF t.raised # NoExc THEN FormatInfo(bn, "CheckFailed") ELSE t

\* The probes check_env calls on cls, in order.
CheckEnvCalls(cls, env) ==
  LET available == IsAvailable(cls, env) IN
    IF available.raised = NoExc /\ available.value
    THEN <<"is_available", "get_version">>
    ELSE <<"is_available">>

\* cls.check_env(log_callback): the outcome and the lines the callback got.
CheckEnv(cls, bn, env, cb) ==
  LET info == CheckEnvInfo(cls, bn, env) IN
    IF info.raised # NoExc
    THEN [out |-> info, logged |-> <<>>]
    ELSE IF cb = "raises"
         THEN [out |-> Raise("CallbackError"), logged |-> <<info.value>>]
         ELSE [out |-> info, logged |-> <<info.value>>]

\* ---------------------------------------------------------------- build_backend

\* Paths a caller passes, and the files that may exist.
Paths == {"/nonexistent/path", "~/model.engine"}

Files == {"/home/user/model.engine", "~/model.engine"}

\* osp.expanduser(path)
ExpandUser(path) ==
  IF path = "~/model.engine" THEN "/home/user/model.engine" ELSE path

\* Bound on the length of backend_files.
MaxFiles == 2

BackendFiles == UNION {[1..n -> Paths] : n \in 0..MaxFiles}

\* The wrapper class a manager builds.
WrapperOf(cls) ==
  IF cls = "TensorRTManager" THEN "TRTBackend" ELSE "AscendBackend"

\* The body shared by TensorRTManager.build_backend and
\* AscendManager.build_backend.
BuildWrapper(cls, backend_files, device_id, wrapper_ok, fs) ==
  IF ~wrapper_ok
  THEN Raise("ImportError")
  ELSE IF Len(backend_files) = 0
       THEN Raise("IndexError")
       ELSE LET backend_file == ExpandUser(backend_files[1]) IN
              IF backend_file \notin fs
              THEN Raise("FileNotFoundError")
              ELSE IF cls = "TensorRTManager"
                   THEN Return([wrapper |-> WrapperOf(cls),
                                file |-> backend_file, device_id |-> Null])
                   ELSE Return([wrapper |-> WrapperOf(cls),
                                file |-> backend_file,
                                device_id |-> device_id])

\* cls.build_backend(backend_files, device_id=device_id)
BuildBackend(cls, backend_files, device_id, wrapper_ok, fs) ==
  IF cls \in {"TensorRTManager", "AscendManager"}
  THEN BuildWrapper(cls, backend_files, device_id, wrapper_ok, fs)
  ELSE Raise("NotImplementedError")

\* ---------------------------------------------------------------- calls

\* Bound on the number of registrations before the capability calls.
MaxRegCap == 1

\* A class decorated with @BACKEND_MANAGERS.register(name).
RegisterCap(name, cls) ==
  /\ nreg < MaxRegCap
  /\ Decorate(name, Null, cls)

Frame == UNCHANGED <<module_dict, backend_name, member_map, member_names,
                     sys_modules, nreg>>

IsAvailableCall(cls, env) ==
  /\ op' = [kind |-> "is_available", cls |-> cls, env |-> env,
            out |-> IsAvailable(cls, env)]
  /\ Frame

GetVersionCall(cls, env) ==
  /\ op' = [kind |-> "get_version", cls |-> cls, env |-> env,
            out |-> GetVersion(cls, env)]
  /\ Frame

CheckEnvCall(cls, env, cb) ==
  /\ LET r == CheckEnv(cls, backend_name[cls], env, cb) IN
       op' = [kind |-> "check_env", cls |-> cls, env |-> env, cb |-> cb,
              out |-> r.out, logged |-> r.logged,
              calls |-> CheckEnvCalls(cls, env)]
  /\ Frame

BuildBackendCall(cls, backend_files, device_id, wrapper_ok, fs) ==
  /\ op' = [kind |-> "build_backend", cls |-> cls,
            backend_files |-> backend_files, device_id |-> device_id,
            wrapper_ok |-> wrapper_ok, fs |-> fs,
            out |-> BuildBackend(cls, backend_files, device_id, wrapper_ok,
                                 fs)]
  /\ Frame

NextCap ==
  \/ \E name \in Names, cls \in Classes : RegisterCap(name, cls)
  \/ \E cls \in Classes : \E env \in EnvsOf(cls) : IsAvailableCall(cls, env)
  \/ \E cls \in Classes : \E env \in EnvsOf(cls) : GetVersionCall(cls, env)
  \/ \E cls \in Classes : \E env \in EnvsOf(cls), cb \in Callbacks :
       CheckEnvCall(cls, env, cb)
  \/ \E cls \in Classes, backend_files \in BackendFiles, device_id \in 0..1,
        wrapper_ok \in BOOLEAN, fs \in SUBSET Files :
       BuildBackendCall(cls, backend_files, device_id, wrapper_ok, fs)

SpecCap == Init /\ [][NextCap]_vars

\* ---------------------------------------------------------------- claims

FindKinds == {"find", "get_backend_manager"}

\* C1: find(n) and get_backend_manager(n) of a registered name n return a
\* non-null implementation whose backend_name is n, whether or not the
\* module '<namespace>.<n>' exists and also when one class is registered
\* under several names.
C1_FindRegistered ==
  [][(op'.kind \in FindKinds /\ op'.name \in DOMAIN module_dict)
       => /\ op'.raised = NoExc
          /\ op'.result # Null
          /\ backend_name'[op'.result] = op'.name]_vars

\* C2: find(name) and get_backend_manager(name) of a name that was never
\* registered return null and raise nothing, when the module registers
\* nothing and when the import fails.
C2_FindUnregistered ==
  [][(/\ op'.kind \in FindKinds
      /\ op'.name \notin DOMAIN module_dict
      /\ op'.import # "registers")
       => /\ op'.raised = NoExc
          /\ op'.result = Null]_vars

C4_KeysHaveMembers ==
  \A k \in DOMAIN module_dict : \E l \in DOMAIN member_map : member_map[l] = k

\* C5: check_env never lets an exception out and always returns a line
\* '<backend_name>:\t<value>', whatever its collaborators do and also for a
\* class that was never registered.
C5_CheckEnvSafe ==
  op.kind = "check_env"
    => /\ op.out.raised = NoExc
       /\ Len(op.out.value) = 3
       /\ op.out.value[2] = ":\t"

\* C6: build_backend with a file list whose first entry does not exist fails
\* with the file-not-found error and no other, for every implementation and
\* whether or not the wrapper module can be imported.
C6_MissingArtifact ==
  (/\ op.kind = "build_backend"
   /\ Len(op.backend_files) >= 1
   /\ op.backend_files[1] \notin op.fs
   /\ ExpandUser(op.backend_files[1]) \notin op.fs)
    => op.out.raised = "FileNotFoundError"

\* C7 (as stated): for every implementation, get_version returns 'None'
\* whenever is_available is false.
C7_VersionNoneAll ==
  (op.kind = "get_version" /\ Unavailable(op.cls, op.env))
    => Returned(op.out, "None")

\* The implementations that override get_version.
Versioned == {"TensorRTManager", "AscendManager"}

\* C7 (amended): for TensorRTManager and AscendManager, get_version returns
\* 'None' and raises nothing whenever is_available is false.
C7_VersionNone ==
  (/\ op.kind = "get_version"
   /\ op.cls \in Versioned
   /\ Unavailable(op.cls, op.env))
    => Returned(op.out, "None")

\* C7 witness: get_version of an unavailable Ascend backend whose package
\* metadata is readable.
C7_Witness ==
  /\ op.kind = "get_version"
  /\ op.cls = "AscendManager"
  /\ Unavailable(op.cls, op.env)
  /\ op.env.libs = {"ais_bench", "pkg_resources"}
  /\ "ais_bench" \in op.env.dists
  /\ Returned(op.out, "None")

\* C8 (as stated): is_available never raises and returns a boolean, for any
\* implementation, the one that does not override the base method included.
C8_AvailableTotalAll ==
  op.kind = "is_available"
    => /\ op.out.raised = NoExc
       /\ op.out.value \in BOOLEAN

\* C8 (amended): is_available of TensorRTManager and AscendManager never
\* raises and returns a boolean, with the runtime library present or absent.
C8_AvailableTotal ==
  (op.kind = "is_available" /\ op.cls \in Versioned)
    => /\ op.out.raised = NoExc
       /\ op.out.value \in BOOLEAN

\* C8 witness: is_available of the Ascend backend with aclruntime absent.
C8_Witness ==
  /\ op.kind = "is_available"
  /\ op.cls = "AscendManager"
  /\ "aclruntime" \notin op.env.libs
  /\ "ais_bench" \in op.env.libs
  /\ Returned(op.out, FALSE)

\* The value the claim C9 gives the line of check_env.
C9_Value(cls, env) ==
  LET a == IsAvailable(cls, env)
      v == GetVersion(cls, env)
  IN  IF a.raised # NoExc THEN "CheckFailed"
      ELSE IF ~a.value THEN "None"
      ELSE IF v.raised = "NotImplementedError" THEN "Unknown"
      ELSE IF v.raised # NoExc THEN "CheckFailed"
      ELSE v.value

\* C9: the line check_env returns carries the version when the backend is
\* available, 'Unknown' when get_version is not implemented, 'None' when the
\* backend is unavailable (get_version is then not called), 'CheckFailed'
\* when a probe raises; log_callback got that same line, exactly once.
C9_CheckEnvValue ==
  (op.kind = "check_env" /\ op.out.raised = NoExc)
    => /\ op.out.value = <<backend_name[op.cls], ":\t", C9_Value(op.cls, op.env)>>
       /\ op.logged = <<op.out.value>>
       /\ (Unavailable(op.cls, op.env)
             => "get_version" \notin {op.calls[i] : i \in DOMAIN op.calls})

\* C9 witness: a registered TensorRT backend that is available while
\* pkg_resources cannot be imported: get_version raises, the line says
\* CheckFailed.
C9_Witness ==
  /\ op.kind = "check_env"
  /\ op.cls = "TensorRTManager"
  /\ op.env.libs = {"tensorrt"}
  /\ backend_name[op.cls] = "tensorrt"
  /\ Returned(op.out, <<"tensorrt", ":\t", "CheckFailed">>)
  /\ op.logged = <<op.out.value>>

\* C10: a register(n) step changes the registry at key n only; no step
\* removes a key of the registry or a member of the enum; a find whose
\* import registers nothing leaves the registry and the enum unchanged.
C10_Frame ==
  [][/\ (op'.kind = "register"
           => \A m \in Names \ {op'.name} :
                DictGet(module_dict', m) = DictGet(module_dict, m))
     /\ \A k \in DOMAIN module_dict : k \in DOMAIN module_dict'
     /\ member_names \subseteq member_names'
     /\ \A l \in DOMAIN member_map :
          l \in DOMAIN member_map' /\ member_map'[l] = member_map[l]
     /\ ((op'.kind \in FindKinds /\ op'.import # "registers")
           => UNCHANGED <<module_dict, member_map, member_names>>)]_vars

\* C10 witness: a name registered again while the other name is registered.
C10_Witness ==
  /\ op.kind = "register"
  /\ "already_registered" \in op.logged
  /\ DOMAIN module_dict = Names
  /\ \E m \in Names \ {op.name} : module_dict[m] # op.cls

\* ---------------------------------------------------------------- Spec

Next ==
  \/ \E name \in Names, enum_name \in EnumNames \cup {Null}, cls \in Classes :
       Register(name, enum_name, cls)
  \/ \E name \in Names : Find(name)
  \/ \E arg \in Names \cup DOMAIN member_map : GetBackendManager(arg)

Spec == Init /\ [][Next]_vars

====
